---- MODULE Spec2Model ----
(***************************************************************************)
(* Petri-net discrete-event engine of the communication-channel model:     *)
(* Position (Model/Position.py), Transition (Model/Transition.py), the     *)
(* driver Model (Model/Model.py) and the end-of-run Statistics.update      *)
(* (Model/Statistics.py).  Logical time is modelled over the integers; a   *)
(* numpy normal sample is a nondeterministic choice from a small set of    *)
(* raw values (negative ones included, they are what max(0, .) clamps).    *)
(***************************************************************************)
EXTENDS Integers, Sequences, FiniteSets, TLC

(***************************************************************************)
(* Bounds of the model.                                                    *)
(***************************************************************************)
\* horizon t_mod passed to Model(t_mod, params)
THorizon == 4
\* cap on the number of fire_input calls explored in one run
MaxFirings == 12
\* largest count / weight passed to a Position method called directly
MaxCount == 2
\* cap on the tokens ever added to (and on the deficit of) a Position
\* driven directly
MaxTokens == 4

Max(a, b) == IF a >= b THEN a ELSE b

SetMin(S) == CHOOSE x \in S : \A y \in S : x <= y

(***************************************************************************)
(* Raw samples of np.random.normal for the four delay kinds.               *)
(***************************************************************************)
ArrivalSamples == {-1, 1, 2}

TransmissionSamples == {-1, 2}

FailureSamples == {1, 3}

RecoverySamples == {-1, 3}

(***************************************************************************)
(* Transition names as Python strings: their code points, compared the way *)
(* Python compares str (lexicographically, so "T10" < "T2").               *)
(***************************************************************************)
NameChars ==
  [T1 |-> <<84, 49>>, T2 |-> <<84, 50>>, T3 |-> <<84, 51>>, T4 |-> <<84, 52>>,
   T5 |-> <<84, 53>>, T6 |-> <<84, 54>>, T7 |-> <<84, 55>>, T8 |-> <<84, 56>>,
   T9 |-> <<84, 57>>, T10 |-> <<84, 49, 48>>, T |-> <<84>>,
   X |-> <<88>>, Y |-> <<89>>]

RECURSIVE SeqLess(_, _)
SeqLess(a, b) ==
  IF a = <<>> THEN b # <<>>
  ELSE IF b = <<>> THEN FALSE
  ELSE IF Head(a) # Head(b) THEN Head(a) < Head(b)
  ELSE SeqLess(Tail(a), Tail(b))

NameLess(a, b) == SeqLess(NameChars[a], NameChars[b])

(***************************************************************************)
(* The network built by Model._create_positions / _create_transitions.     *)
(* input_arcs: position -> <<weight, is_info>>; output_arcs: position ->   *)
(* weight; delay: the lambda given to the Transition (normal = max(0,      *)
(* sample), const = fixed value, none = no delay argument).                *)
(***************************************************************************)
CommPositions ==
  [P1 |-> 1, P2 |-> 0, P3 |-> 0, P4 |-> 0, P5 |-> 0, P6 |-> 1,
   P7 |-> 1, P8 |-> 1, P9 |-> 0, P10 |-> 0, P11 |-> 0, P12 |-> 0]

NormalDelay(S) == [kind |-> "normal", samples |-> S]

ConstDelay(v) == [kind |-> "const", samples |-> {v}]

NoDelay == [kind |-> "none", samples |-> {}]

CommTransitions ==
  [T1 |-> [input_arcs |-> [P1 |-> <<1, FALSE>>],
           output_arcs |-> [P2 |-> 1, P1 |-> 1],
           delay |-> NormalDelay(ArrivalSamples), priority |-> 0,
           on_start |-> "none", on_complete |-> FALSE],
   T2 |-> [input_arcs |-> [P2 |-> <<1, FALSE>>, P8 |-> <<1, TRUE>>],
           output_arcs |-> [P3 |-> 1],
           delay |-> NoDelay, priority |-> 0,
           on_start |-> "none", on_complete |-> FALSE],
   T3 |-> [input_arcs |-> [P2 |-> <<1, FALSE>>, P11 |-> <<1, TRUE>>],
           output_arcs |-> [P4 |-> 1],
           delay |-> NoDelay, priority |-> 0,
           on_start |-> "none", on_complete |-> FALSE],
   T4 |-> [input_arcs |-> [P3 |-> <<1, FALSE>>, P6 |-> <<1, FALSE>>,
                           P8 |-> <<1, TRUE>>],
           output_arcs |-> [P5 |-> 1, P6 |-> 1],
           delay |-> NormalDelay(TransmissionSamples), priority |-> 1,
           on_start |-> "main", on_complete |-> TRUE],
   T5 |-> [input_arcs |-> [P4 |-> <<1, FALSE>>, P6 |-> <<1, FALSE>>],
           output_arcs |-> [P5 |-> 1, P6 |-> 1],
           delay |-> NormalDelay(TransmissionSamples), priority |-> 0,
           on_start |-> "reserve", on_complete |-> TRUE],
   T6 |-> [input_arcs |-> [P3 |-> <<1, FALSE>>, P8 |-> <<0, TRUE>>],
           output_arcs |-> [P2 |-> 1],
           delay |-> NoDelay, priority |-> 0,
           on_start |-> "none", on_complete |-> FALSE],
   T7 |-> [input_arcs |-> [P7 |-> <<1, FALSE>>],
           output_arcs |-> [P10 |-> 1, P9 |-> 1, P7 |-> 1],
           delay |-> NormalDelay(FailureSamples), priority |-> 0,
           on_start |-> "failure", on_complete |-> FALSE],
   T9 |-> [input_arcs |-> [P10 |-> <<1, FALSE>>, P8 |-> <<1, FALSE>>],
           output_arcs |-> [P12 |-> 1],
           delay |-> NormalDelay(RecoverySamples), priority |-> 0,
           on_start |-> "none", on_complete |-> FALSE],
   T8 |-> [input_arcs |-> [P9 |-> <<1, FALSE>>],
           output_arcs |-> [P11 |-> 1],
           delay |-> ConstDelay(2), priority |-> 0,
           on_start |-> "none", on_complete |-> FALSE],
   T10 |-> [input_arcs |-> [P11 |-> <<1, FALSE>>, P12 |-> <<1, FALSE>>],
            output_arcs |-> [P8 |-> 1],
            delay |-> NoDelay, priority |-> 0,
            on_start |-> "none", on_complete |-> FALSE]]

\* insertion order of the transitions dict (what .values() iterates)
CommOrder == <<"T1", "T2", "T3", "T4", "T5", "T6", "T7", "T9", "T8", "T10">>

\* a Position object on its own, with no transitions
SinglePosition == [positions |-> [P |-> 0], trans |-> <<>>, order |-> <<>>]

\* one position P with k tokens and one transition T that takes 1 token
\* from P and puts 1 back after a fixed delay of 5
CycleNet(k) ==
  [positions |-> [P |-> k],
   trans |-> [T |-> [input_arcs |-> [P |-> <<1, FALSE>>],
                     output_arcs |-> [P |-> 1],
                     delay |-> ConstDelay(5), priority |-> 0,
                     on_start |-> "none", on_complete |-> FALSE]],
   order |-> <<"T">>]

\* positions A (k tokens) and B (empty) and one transition T with no delay
\* argument that takes 1 token from A and puts 1 on B
MoveNet(k) ==
  [positions |-> [A |-> k, B |-> 0],
   trans |-> [T |-> [input_arcs |-> [A |-> <<1, FALSE>>],
                     output_arcs |-> [B |-> 1],
                     delay |-> NoDelay, priority |-> 0,
                     on_start |-> "none", on_complete |-> FALSE]],
   order |-> <<"T">>]

\* transitions X (priority 2, takes 1 token from A, puts 1 on OX) and Y
\* (priority 1, takes 1 token from yIn, puts 1 on OY), neither with a delay
\* argument; A holds a tokens and B holds 1.  With yIn = "A" the two compete
\* for the tokens of A, with yIn = "B" each has its own input.
PrioNet(a, yIn) ==
  [positions |-> [A |-> a, B |-> 1, OX |-> 0, OY |-> 0],
   trans |-> [X |-> [input_arcs |-> [A |-> <<1, FALSE>>],
                     output_arcs |-> [OX |-> 1],
                     delay |-> NoDelay, priority |-> 2,
                     on_start |-> "none", on_complete |-> FALSE],
              Y |-> [input_arcs |-> [p \in {yIn} |-> <<1, FALSE>>],
                     output_arcs |-> [OY |-> 1],
                     delay |-> NoDelay, priority |-> 1,
                     on_start |-> "none", on_complete |-> FALSE]],
   order |-> <<"Y", "X">>]

\* a transmission-like transition Y (takes 1 token from Q and returns it
\* after a sampled delay, with the on_start / on_complete hooks of T4) over
\* k slot tokens in Q, and a transition X that is never enabled (A stays
\* empty) and only carries the first pending output
HookNet(k) ==
  [positions |-> [Q |-> k, A |-> 0, OX |-> 0],
   trans |-> [X |-> [input_arcs |-> [A |-> <<1, FALSE>>],
                     output_arcs |-> [OX |-> 1],
                     delay |-> NoDelay, priority |-> 0,
                     on_start |-> "none", on_complete |-> FALSE],
              Y |-> [input_arcs |-> [Q |-> <<1, FALSE>>],
                     output_arcs |-> [Q |-> 1],
                     delay |-> NormalDelay({1, 2}), priority |-> 0,
                     on_start |-> "main", on_complete |-> TRUE]],
   order |-> <<"X", "Y">>]

\* raw failure-interval samples with one that max(0, .) clamps to delay 0
FailureSamplesZero == {-1, 3}

\* the failure / recovery part of the network: the positions as created,
\* the transitions T7, T9, T8 and T10 as declared (T1 to T6 neither take
\* tokens from nor put tokens on P7 to P12), T7 drawing its delay from
\* FailureSamplesZero
RecoveryNet ==
  [positions |-> CommPositions,
   trans |-> [t \in {"T7", "T8", "T9", "T10"} |->
                IF t = "T7"
                THEN [CommTransitions[t] EXCEPT
                        !.delay = NormalDelay(FailureSamplesZero)]
                ELSE CommTransitions[t]],
   order |-> <<"T7", "T9", "T8", "T10">>]

\* variant: the communication network with P11 declared as a guard-only
\* input of T10, so a recovery does not take the P11 token
NetsP11Guard ==
  [comm |-> [positions |-> CommPositions,
             trans |-> [CommTransitions EXCEPT
                          !["T10"].input_arcs["P11"] = <<1, TRUE>>],
             order |-> CommOrder]]

Nets ==
  [comm |-> [positions |-> CommPositions, trans |-> CommTransitions,
             order |-> CommOrder],
   single |-> SinglePosition,
   cycle0 |-> CycleNet(0), cycle1 |-> CycleNet(1), cycle2 |-> CycleNet(2),
   move0 |-> MoveNet(0), move1 |-> MoveNet(1), move2 |-> MoveNet(2),
   prioShared1 |-> PrioNet(1, "A"), prioShared2 |-> PrioNet(2, "A"),
   prioSplit |-> PrioNet(1, "B"),
   hook1 |-> HookNet(1), hook2 |-> HookNet(2),
   recovery |-> RecoveryNet]

VARIABLES
  net,           \* which network the Model was constructed with
  t_mod,         \* Model.t_mod
  cap,           \* bound on fire_input calls of this run
  pc,            \* position in Model.run
  current_time,  \* Model.current_time
  pos,           \* Model.positions: name -> Position fields
  output_times,  \* Transition.output_times, per transition (a set)
  record,        \* Transition.record, per transition (0 = None, else index)
  records,       \* Statistics.transmission_records
  failure_times, \* Statistics.failure_times
  stats,         \* Statistics fields set by update
  nIn,           \* history: fire_input calls per transition
  nOut,          \* history: fire_output calls per transition
  seeded,        \* history: outputs seeded at construction per transition
  ev,            \* history: what the last step did
  phaseSched,    \* history: transitions that fired in the current firing phase
  phaseOut,      \* history: transitions whose output the last output phase applied
  prevHead,      \* history: control state at the previous loop head
  fireLog,       \* history: <<time, transition>> of every fire_input, in order
  owner          \* history: the firings whose output is still pending, each
                 \* with its transition, its output time and the record its
                 \* on_start returned

vars ==
  <<net, t_mod, cap, pc, current_time, pos, output_times, record, records,
    failure_times, stats, nIn, nOut, seeded, ev, phaseSched, phaseOut,
    prevHead, fireLog, owner>>

Net == Nets[net]

Trans == Net.trans

TNames == DOMAIN Trans

PNames == DOMAIN Net.positions

Order == Net.order

(***************************************************************************)
(* Position (Model/Position.py).                                           *)
(***************************************************************************)
NewPosition(tokens) ==
  [tokens |-> tokens, total_tokens |-> tokens, total_busy_time |-> 0,
   last_change_time |-> 0, max_tokens |-> tokens]

UpdateBusyTime(p, time) ==
  [p EXCEPT !.total_busy_time =
              IF p.tokens > 0 THEN @ + (time - p.last_change_time) ELSE @,
            !.last_change_time = time]

\* variant: max_tokens is not updated
AddTokensNoMax(p, count, time) ==
  LET q == UpdateBusyTime(p, time)
  IN  [q EXCEPT !.tokens = @ + count,
                !.total_tokens = @ + count]

\* variant: max_tokens is set to the new count instead of the maximum
AddTokensMaxAssign(p, count, time) ==
  LET q == UpdateBusyTime(p, time)
  IN  [q EXCEPT !.tokens = @ + count,
                !.total_tokens = @ + count,
                !.max_tokens = q.tokens + count]

\* variant: the token count is assigned instead of incremented
AddTokensAssign(p, count, time) ==
  LET q == UpdateBusyTime(p, time)
  IN  [q EXCEPT !.tokens = count,
                !.total_tokens = @ + count,
                !.max_tokens = Max(@, count)]

AddTokens(p, count, time) ==
  LET q == UpdateBusyTime(p, time)
  IN  [q EXCEPT !.tokens = @ + count,
                !.total_tokens = @ + count,
                !.max_tokens = Max(@, q.tokens + count)]

RemoveTokens(p, count, time) ==
  LET q == UpdateBusyTime(p, time)
  IN  [q EXCEPT !.tokens = @ - count]

\* variant: the comparison is off by one
HasTokensOffByOne(p, count) ==
  IF count > 0 THEN p.tokens >= count - 1 ELSE FALSE

\* variant: the count > 0 test is missing, so weight 0 is always satisfied
HasTokensNoZeroGuard(p, count) == p.tokens >= count

HasTokens(p, count) == IF count > 0 THEN p.tokens >= count ELSE FALSE

(***************************************************************************)
(* Transition (Model/Transition.py).                                       *)
(***************************************************************************)
Weight(arc) == arc[1]

IsInfo(arc) == arc[2]

CheckInputConditions(t, P) ==
  \A pn \in DOMAIN Trans[t].input_arcs :
    HasTokens(P[pn], Weight(Trans[t].input_arcs[pn]))

IsEnabled(t, P) ==
  /\ CheckInputConditions(t, P)
  /\ \A other \in TNames \ {t} :
       ~(Trans[other].priority > Trans[t].priority
         /\ CheckInputConditions(other, P))

\* the values self.delay() can return
DelayValues(t) ==
  LET d == Trans[t].delay
  IN  CASE d.kind = "normal" -> {Max(0, x) : x \in d.samples}
        [] d.kind = "const" -> d.samples
        [] d.kind = "none" -> {0}

\* variant: the is_info flag is ignored and every input arc is consumed
FireInputPosAllArcs(t, P, time) ==
  [pn \in DOMAIN P |->
    IF pn \in DOMAIN Trans[t].input_arcs
    THEN RemoveTokens(P[pn], Weight(Trans[t].input_arcs[pn]), time)
    ELSE P[pn]]

\* fire_input, the marking part: remove the weight of every non-info arc
FireInputPos(t, P, time) ==
  [pn \in DOMAIN P |->
    IF pn \in DOMAIN Trans[t].input_arcs /\ ~IsInfo(Trans[t].input_arcs[pn])
    THEN RemoveTokens(P[pn], Weight(Trans[t].input_arcs[pn]), time)
    ELSE P[pn]]

\* variant: a firing with a positive delay schedules no output
FireInputScheduleDropDelayed(times, time, delay) ==
  IF delay > 0 THEN times ELSE times \cup {time}

\* fire_input, the scheduling part: output_times.add(...)
FireInputSchedule(times, time, delay) ==
  IF delay > 0 THEN times \cup {time + delay} ELSE times \cup {time}

\* fire_input, the on_start hook: Model._start_transmission appends a record
StartRecords(t, recs, time) ==
  IF Trans[t].on_start \in {"main", "reserve"}
  THEN Append(recs, [start_time |-> time, end_time |-> 0,
                     channel |-> Trans[t].on_start, completed |-> FALSE])
  ELSE recs

\* variant: a record already stored is kept, so on_complete gets the record
\* of the first firing
StartRecordRefKeepFirst(t, old, recs, time) ==
  CASE Trans[t].on_start \in {"main", "reserve"} ->
         IF old # 0 THEN old ELSE Len(recs) + 1
    [] Trans[t].on_start = "failure" -> 0
    [] OTHER -> old

\* self.record after fire_input: the hook's return value (None is 0)
StartRecordRef(t, old, recs, time) ==
  CASE Trans[t].on_start \in {"main", "reserve"} -> Len(recs) + 1
    [] Trans[t].on_start = "failure" -> 0
    [] OTHER -> old

StartFailureTimes(t, ft, time) ==
  IF Trans[t].on_start = "failure" THEN Append(ft, time) ELSE ft

\* fire_output, the marking part: add the weight of every output arc
FireOutputPos(t, P, time) ==
  [pn \in DOMAIN P |->
    IF pn \in DOMAIN Trans[t].output_arcs
    THEN AddTokens(P[pn], Trans[t].output_arcs[pn], time)
    ELSE P[pn]]

\* variant: _complete_transmission sets end_time but not the completed flag
CompleteRecordsNoFlag(t, recs, ref, time) ==
  IF Trans[t].on_complete /\ ref \in 1..Len(recs)
  THEN [recs EXCEPT ![ref].end_time = time]
  ELSE recs

\* fire_output, the on_complete hook: Model._complete_transmission.
\* (self.record is never None when T4/T5 produce an output: their outputs
\* are scheduled by fire_input only.)
CompleteRecords(t, recs, ref, time) ==
  IF Trans[t].on_complete /\ ref \in 1..Len(recs)
  THEN [recs EXCEPT ![ref].end_time = time, ![ref].completed = TRUE]
  ELSE recs

(***************************************************************************)
(* Model (Model/Model.py).                                                 *)
(***************************************************************************)
\* the list `times` of _find_next_event_time, as a set
PendingTimes(ot) == UNION {ot[t] : t \in TNames}

\* variant: the sort key is the priority alone, so the (stable) sort keeps the
\* dict order among equal priorities
SortBeforeDictOrder(a, b) ==
  \/ Trans[a].priority > Trans[b].priority
  \/ /\ Trans[a].priority = Trans[b].priority
     /\ \E i, j \in 1..Len(Order) : i < j /\ Order[i] = a /\ Order[j] = b

\* sorted(..., key=lambda t: (-t.priority, t.name)): a before b
SortBefore(a, b) ==
  \/ Trans[a].priority > Trans[b].priority
  \/ Trans[a].priority = Trans[b].priority /\ NameLess(a, b)

RECURSIVE SortedSeq(_)
SortedSeq(S) ==
  IF S = {} THEN <<>>
  ELSE LET m == CHOOSE x \in S : \A y \in S \ {x} : SortBefore(x, y)
       IN  <<m>> \o SortedSeq(S \ {m})

SortedTransitions == SortedSeq(TNames)

\* variant: only the first transition of the sorted list is examined
ProcessEnabledChoiceFirstOnly(P) ==
  LET st == SortedTransitions
  IN  IF st # <<>> /\ IsEnabled(st[1], P) THEN {st[1]} ELSE {}

\* variant: priorities are ignored, the first transition in name order whose
\* input conditions hold is fired
ProcessEnabledChoiceNoPriority(P) ==
  LET ok == {t \in TNames : CheckInputConditions(t, P)}
  IN  IF ok = {} THEN {}
      ELSE {CHOOSE t \in ok : \A u \in ok \ {t} : NameLess(t, u)}

\* _process_enabled_transitions: the transition it fires, as a set (empty
\* when it returns False)
ProcessEnabledChoice(P) ==
  LET st == SortedTransitions
      idx == {i \in 1..Len(st) : IsEnabled(st[i], P)}
  IN  IF idx = {} THEN {} ELSE {st[SetMin(idx)]}

\* _process_outputs from the i-th transition of the dict on; s carries the
\* output_times, positions, records and the set of transitions fired so far
RECURSIVE ProcessOutputsFrom(_, _, _)
ProcessOutputsFrom(i, s, time) ==
  IF i > Len(Order) THEN s
  ELSE LET t == Order[i]
       IN  IF time \in s.output_times[t]
           THEN ProcessOutputsFrom(i + 1,
                  [output_times |-> [s.output_times EXCEPT ![t] = @ \ {time}],
                   pos |-> FireOutputPos(t, s.pos, time),
                   records |-> CompleteRecords(t, s.records, record[t], time),
                   fired |-> s.fired \cup {t}],
                  time)
           ELSE ProcessOutputsFrom(i + 1, s, time)

\* variant: only the first due transition of the dict is applied
ProcessOutputsResultFirstOnly(ot, P, recs, time) ==
  LET due == {i \in 1..Len(Order) : time \in ot[Order[i]]}
      s0 == [output_times |-> ot, pos |-> P, records |-> recs, fired |-> {}]
  IN  IF due = {} THEN s0
      ELSE LET t == Order[SetMin(due)]
           IN  [output_times |-> [ot EXCEPT ![t] = @ \ {time}],
                pos |-> FireOutputPos(t, P, time),
                records |-> CompleteRecords(t, recs, record[t], time),
                fired |-> {t}]

ProcessOutputsResult(ot, P, recs, time) ==
  ProcessOutputsFrom(1, [output_times |-> ot, pos |-> P, records |-> recs,
                         fired |-> {}], time)

\* what decides the rest of the run: the marking of the positions some
\* transition reads, the pending outputs and the clock
InputPositions ==
  UNION {DOMAIN Trans[t].input_arcs : t \in TNames}

ControlState ==
  [tokens |-> [pn \in InputPositions |-> pos[pn].tokens],
   output_times |-> output_times,
   current_time |-> current_time]

NewStatistics ==
  [total_messages |-> 0, transmitted_messages |-> 0, failures |-> 0,
   max_queue_length |-> 0, channels_utilization |-> <<>>,
   main_channel_failure_rate |-> <<0, 1>>]

\* Model.__init__ for network n, horizon T; seeds: transition -> the set of
\* output times added to it at construction
InitModel(n, T, c, seeds) ==
  /\ net = n
  /\ t_mod = T
  /\ cap = c
  /\ pc = "loop"
  /\ current_time = 0
  /\ pos = [pn \in DOMAIN Nets[n].positions |->
              NewPosition(Nets[n].positions[pn])]
  /\ output_times = seeds
  /\ record = [t \in DOMAIN Nets[n].trans |-> 0]
  /\ records = <<>>
  /\ failure_times = <<>>
  /\ stats = NewStatistics
  /\ nIn = [t \in DOMAIN Nets[n].trans |-> 0]
  /\ nOut = [t \in DOMAIN Nets[n].trans |-> 0]
  /\ seeded = [t \in DOMAIN Nets[n].trans |-> Cardinality(seeds[t])]
  /\ ev = [kind |-> "init", who |-> {}, time |-> 0]
  /\ phaseSched = {}
  /\ phaseOut = {}
  /\ prevHead = {}
  /\ fireLog = <<>>
  /\ owner = {}

\* Model(t_mod, params): T1 and T7 are seeded with current_time (0) plus an
\* unclamped normal sample
Init ==
  \E a \in ArrivalSamples, f \in FailureSamples :
    InitModel("comm", THorizon, MaxFirings,
              [t \in DOMAIN CommTransitions |->
                 CASE t = "T1" -> {0 + a}
                   [] t = "T7" -> {0 + f}
                   [] OTHER -> {}])

\* the engine constructed on a one-position cycle: 0, 1 or 2 initial
\* tokens, horizon 17 or 12, and either no output seeded or one seeded for
\* T at time 0, 2 or 5
InitCycle ==
  \E n \in {"cycle0", "cycle1", "cycle2"}, T \in {12, 17},
     seed \in {{}, {0}, {2}, {5}} :
    InitModel(n, T, MaxFirings, [t \in {"T"} |-> seed])

\* the engine constructed on the A-to-B net: 0, 1 or 2 tokens in A, a
\* horizon of 1 to 3, and no output seeded or outputs of T seeded at times
\* from 0 to 2
InitMove ==
  \E n \in {"move0", "move1", "move2"}, T \in 1..3,
     seed \in SUBSET {0, 1, 2} :
    InitModel(n, T, MaxFirings, [t \in {"T"} |-> seed])

\* the engine constructed on an X/Y net: a horizon of 1 or 2, and no output
\* seeded or one output seeded for X or for Y at time 0 or 1
InitPrio ==
  \E n \in {"prioShared1", "prioShared2", "prioSplit"}, T \in 1..2,
     who \in {"none", "X", "Y"}, at \in 0..1 :
    InitModel(n, T, MaxFirings,
              [t \in {"X", "Y"} |-> IF t = who THEN {at} ELSE {}])

\* the engine constructed on a hook net: a horizon of 2 or 3 and one output
\* of X seeded at time 0 or 1
InitHook ==
  \E n \in {"hook1", "hook2"}, T \in 2..3, at \in 0..1 :
    InitModel(n, T, MaxFirings,
              [t \in {"X", "Y"} |-> IF t = "X" THEN {at} ELSE {}])

\* the engine constructed on the failure / recovery part: T7 is seeded with
\* 0 plus an unclamped failure sample
InitRecovery ==
  \E f \in FailureSamplesZero :
    InitModel("recovery", THorizon, MaxFirings,
              [t \in {"T7", "T8", "T9", "T10"} |->
                 IF t = "T7" THEN {0 + f} ELSE {}])

\* variant: with nothing pending the loop still runs a firing phase when a
\* transition is enabled
RunLoopHeadFiresFirst ==
  /\ pc = "loop"
  /\ prevHead' = {ControlState}
  /\ phaseSched' = {}
  /\ phaseOut' = {}
  /\ IF current_time < t_mod /\ PendingTimes(output_times) # {}
     THEN /\ current_time' = SetMin(PendingTimes(output_times))
          /\ pc' = "outputs"
          /\ ev' = [kind |-> "head", who |-> {}, time |-> current_time']
     ELSE IF current_time < t_mod /\ ProcessEnabledChoice(pos) # {}
     THEN /\ pc' = "firing"
          /\ ev' = [kind |-> "head", who |-> {}, time |-> current_time]
          /\ UNCHANGED current_time
     ELSE /\ pc' = "update"
          /\ ev' = [kind |-> "exit", who |-> {}, time |-> current_time]
          /\ UNCHANGED current_time
  /\ UNCHANGED <<net, t_mod, cap, pos, output_times, record, records,
                 failure_times, stats, nIn, nOut, seeded, fireLog, owner>>

\* run, lines 34-40: the loop test, _find_next_event_time, the clock
RunLoopHead ==
  /\ pc = "loop"
  /\ prevHead' = {ControlState}
  /\ phaseSched' = {}
  /\ phaseOut' = {}
  /\ IF current_time < t_mod /\ PendingTimes(output_times) # {}
     THEN /\ current_time' = SetMin(PendingTimes(output_times))
          /\ pc' = "outputs"
          /\ ev' = [kind |-> "head", who |-> {}, time |-> current_time']
     ELSE /\ pc' = "update"
          /\ ev' = [kind |-> "exit", who |-> {}, time |-> current_time]
          /\ UNCHANGED current_time
  /\ UNCHANGED <<net, t_mod, cap, pos, output_times, record, records,
                 failure_times, stats, nIn, nOut, seeded, fireLog, owner>>

\* run, line 42: _process_outputs
ProcessOutputs ==
  /\ pc = "outputs"
  /\ LET r == ProcessOutputsResult(output_times, pos, records, current_time)
     IN  /\ output_times' = r.output_times
         /\ pos' = r.pos
         /\ records' = r.records
         /\ nOut' = [t \in TNames |-> IF t \in r.fired THEN nOut[t] + 1
                                       ELSE nOut[t]]
         /\ ev' = [kind |-> "out", who |-> r.fired, time |-> current_time]
         /\ phaseOut' = r.fired
  /\ pc' = "firing"
  /\ UNCHANGED <<net, t_mod, cap, current_time, record, failure_times, stats,
                 nIn, seeded, phaseSched, prevHead, fireLog>>
  /\ owner' = {o \in owner :
                 ~(o.t \in phaseOut' /\ o.due = current_time)}

TotalFired == LET RECURSIVE Sum(_)
                  Sum(S) == IF S = {} THEN 0
                            ELSE LET x == CHOOSE y \in S : TRUE
                                 IN  nIn[x] + Sum(S \ {x})
              IN  Sum(TNames)

\* run, lines 44-45: one call of _process_enabled_transitions that fires t
\* with sampled delay d
FireTransition(t, d) ==
  /\ pos' = FireInputPos(t, pos, current_time)
  /\ output_times' = [output_times EXCEPT
                        ![t] = FireInputSchedule(@, current_time, d)]
  /\ records' = StartRecords(t, records, current_time)
  /\ record' = [record EXCEPT
                  ![t] = StartRecordRef(t, @, records, current_time)]
  /\ failure_times' = StartFailureTimes(t, failure_times, current_time)
  /\ nIn' = [nIn EXCEPT ![t] = @ + 1]
  /\ ev' = [kind |-> "in", who |-> {t}, time |-> current_time]
  /\ phaseSched' = phaseSched \cup {t}
  /\ fireLog' = Append(fireLog, <<current_time, t>>)
  /\ owner' = owner \cup
                {[t |-> t,
                  due |-> current_time + Max(0, d),
                  ref |-> IF Len(records') > Len(records)
                          THEN Len(records') ELSE 0]}

ProcessEnabledFires ==
  /\ pc = "firing"
  /\ TotalFired < cap
  /\ \E t \in ProcessEnabledChoice(pos) :
       \E d \in DelayValues(t) : FireTransition(t, d)
  /\ UNCHANGED <<net, t_mod, cap, pc, current_time, stats, nOut, seeded,
                 phaseOut, prevHead>>

\* run, lines 44-45: the call of _process_enabled_transitions that returns
\* False and ends the firing phase
ProcessEnabledNone ==
  /\ pc = "firing"
  /\ ProcessEnabledChoice(pos) = {}
  /\ pc' = "loop"
  /\ ev' = [kind |-> "idle", who |-> {}, time |-> current_time]
  /\ UNCHANGED <<net, t_mod, cap, current_time, pos, output_times, record,
                 records, failure_times, stats, nIn, nOut, seeded, phaseSched,
                 phaseOut, prevHead, fireLog, owner>>

\* number of completed records of a channel
RECURSIVE CompletedOn(_, _)
CompletedOn(recs, ch) ==
  IF recs = <<>> THEN 0
  ELSE (IF Head(recs).completed /\ Head(recs).channel = ch THEN 1 ELSE 0)
       + CompletedOn(Tail(recs), ch)

\* run, line 47: Statistics.update(model).  Dividing by transmitted_messages
\* = 0 raises ZeroDivisionError after the first four fields are set; a
\* network without the positions it reads raises KeyError right after the
\* busy times are settled.
StatisticsUpdate ==
  /\ pc = "update"
  /\ pos' = [pn \in PNames |-> UpdateBusyTime(pos[pn], current_time)]
  /\ LET transmitted == pos["P5"].tokens
         first == [stats EXCEPT !.total_messages = pos["P1"].total_tokens,
                                !.transmitted_messages = transmitted,
                                !.failures = pos["P7"].total_tokens,
                                !.max_queue_length = pos["P2"].max_tokens]
     IN  IF ~({"P1", "P2", "P3", "P4", "P5", "P7"} \subseteq PNames)
         THEN \* model.positions['P1'] raises KeyError
              /\ stats' = stats
              /\ pc' = "error"
         ELSE IF transmitted = 0
         THEN /\ stats' = first
              /\ pc' = "error"
         ELSE /\ stats' =
                   [first EXCEPT
                      !.channels_utilization =
                         [main |-> <<CompletedOn(records, "main"),
                                     transmitted>>,
                          reserve |-> <<CompletedOn(records, "reserve"),
                                        transmitted>>],
                      !.max_queue_length =
                         pos["P3"].max_tokens + pos["P4"].max_tokens,
                      !.main_channel_failure_rate =
                         IF current_time > 0
                         THEN <<pos["P7"].total_tokens, current_time>>
                         ELSE <<0, 1>>]
              /\ pc' = "done"
  /\ ev' = [kind |-> "update", who |-> {}, time |-> current_time]
  /\ UNCHANGED <<net, t_mod, cap, current_time, output_times, record, records,
                 failure_times, nIn, nOut, seeded, phaseSched, phaseOut,
                 prevHead, fireLog, owner>>

Next ==
  \/ RunLoopHead
  \/ ProcessOutputs
  \/ ProcessEnabledFires
  \/ ProcessEnabledNone
  \/ StatisticsUpdate

Spec == Init /\ [][Next]_vars

\* the engine on the one-position cycles
SpecCycle == InitCycle /\ [][Next]_vars

\* the engine on the A-to-B nets
SpecMove == InitMove /\ [][Next]_vars

\* the engine on the X/Y nets
SpecPrio == InitPrio /\ [][Next]_vars

\* the engine on the hook nets
SpecHook == InitHook /\ [][Next]_vars

\* the engine on the failure / recovery part of the network
SpecRecovery == InitRecovery /\ [][Next]_vars

(***************************************************************************)
(* A Position driven directly through its methods (Model/Position.py), for *)
(* the properties of the methods themselves: any caller, any counts, call  *)
(* times that do not decrease.                                             *)
(***************************************************************************)
InitPosition ==
  \E k \in 0..MaxCount :
    /\ net = "single"
    /\ t_mod = THorizon
    /\ cap = MaxFirings
    /\ pc = "api"
    /\ current_time = 0
    /\ pos = [pn \in DOMAIN SinglePosition.positions |-> NewPosition(k)]
    /\ output_times = <<>>
    /\ record = <<>>
    /\ records = <<>>
    /\ failure_times = <<>>
    /\ stats = NewStatistics
    /\ nIn = <<>>
    /\ nOut = <<>>
    /\ seeded = <<>>
    /\ ev = [kind |-> "new", count |-> k, time |-> 0, result |-> TRUE,
             error |-> FALSE]
    /\ phaseSched = {}
    /\ phaseOut = {}
    /\ prevHead = {}
    /\ fireLog = <<>>
    /\ owner = {}

PositionFrame ==
  UNCHANGED <<net, t_mod, cap, pc, output_times, record, records,
              failure_times, stats, nIn, nOut, seeded, phaseSched, phaseOut,
              prevHead, fireLog, owner>>

\* Position.add_tokens(count, time); none of the methods raises
CallAddTokens ==
  /\ pc = "api"
  /\ \E c \in 1..MaxCount, time \in current_time..THorizon :
       /\ pos["P"].total_tokens + c <= MaxTokens
       /\ pos' = [pos EXCEPT !["P"] = AddTokens(@, c, time)]
       /\ current_time' = time
       /\ ev' = [kind |-> "add", count |-> c, time |-> time, result |-> TRUE,
                 error |-> FALSE]
  /\ PositionFrame

\* Position.remove_tokens(count, time)
CallRemoveTokens ==
  /\ pc = "api"
  /\ \E c \in 1..MaxCount, time \in current_time..THorizon :
       /\ pos["P"].tokens - c >= -MaxTokens
       /\ pos' = [pos EXCEPT !["P"] = RemoveTokens(@, c, time)]
       /\ current_time' = time
       /\ ev' = [kind |-> "remove", count |-> c, time |-> time,
                 result |-> TRUE, error |-> FALSE]
  /\ PositionFrame

\* Position.has_tokens(count)
CallHasTokens ==
  /\ pc = "api"
  /\ \E w \in -1..MaxCount :
       ev' = [kind |-> "has", count |-> w, time |-> current_time,
              result |-> HasTokens(pos["P"], w), error |-> FALSE]
  /\ UNCHANGED <<pos, current_time>>
  /\ PositionFrame

\* Position.update_busy_time(time)
CallUpdateBusyTime ==
  /\ pc = "api"
  /\ \E time \in current_time..THorizon :
       /\ pos' = [pos EXCEPT !["P"] = UpdateBusyTime(@, time)]
       /\ current_time' = time
       /\ ev' = [kind |-> "settle", count |-> 0, time |-> time,
                 result |-> TRUE, error |-> FALSE]
  /\ PositionFrame

NextPosition ==
  \/ CallAddTokens
  \/ CallRemoveTokens
  \/ CallHasTokens
  \/ CallUpdateBusyTime

SpecPosition == InitPosition /\ [][NextPosition]_vars

(***************************************************************************)
(* Properties.                                                             *)
(***************************************************************************)
\* the step is a fire_input of t / applies an output of t
FiredInput(t) == nIn'[t] = nIn[t] + 1

FiredOutput(t) == nOut'[t] = nOut[t] + 1

Priority(t) == Trans[t].priority

\* tokens a fire_input of t takes from pn / a fire_output of t puts on pn,
\* by the arcs the network declares
ConsumedBy(t, pn) ==
  IF pn \in DOMAIN Trans[t].input_arcs /\ ~Trans[t].input_arcs[pn][2]
  THEN Trans[t].input_arcs[pn][1] ELSE 0

ProducedBy(t, pn) ==
  IF pn \in DOMAIN Trans[t].output_arcs THEN Trans[t].output_arcs[pn] ELSE 0

RECURSIVE ProducedBySet(_, _)
ProducedBySet(S, pn) ==
  IF S = {} THEN 0
  ELSE LET t == CHOOSE x \in S : TRUE
       IN  ProducedBy(t, pn) + ProducedBySet(S \ {t}, pn)

\* C1: in every reachable state, after every fire_input and fire_output,
\* every position's token count is >= 0.
C1_TokensNonNegative == \A pn \in PNames : pos[pn].tokens >= 0

\* a fire_input of T1 has just emptied P1
C1_Witness ==
  /\ ev.kind = "in"
  /\ ev.who = {"T1"}
  /\ pos["P1"].tokens = 0
  /\ nOut["T1"] >= 1

\* C2: priority correctness: a transition B never executes fire_input while
\* a transition A of strictly higher priority has all its input-arc
\* conditions satisfied.
C2_PriorityCorrectness ==
  [][\A b \in TNames :
       FiredInput(b) =>
         \A a \in TNames :
           Priority(a) > Priority(b) =>
             \E pn \in DOMAIN Trans[a].input_arcs :
               \/ Trans[a].input_arcs[pn][1] <= 0
               \/ pos[pn].tokens < Trans[a].input_arcs[pn][1]]_vars

\* T4 (priority 1) has just fired while T1 (priority 0) was, and still is,
\* locally enabled
C2_Witness ==
  /\ ev.kind = "in"
  /\ ev.who = {"T4"}
  /\ pos["P1"].tokens >= 1

\* C3: for each transition, at every point of a run, fire_input calls plus
\* seeded outputs = fire_output calls plus pending outputs (every scheduled
\* output is kept and applied exactly once).
C3_OutputBalance ==
  \A t \in TNames :
    nIn[t] + seeded[t] = nOut[t] + Cardinality(output_times[t])

\* C4: the engine stops without processing an event whose time is >= the
\* horizon: no fire_output and no fire_input happens at a time >= t_mod and
\* current_time never exceeds t_mod.
C4_StopsAtHorizon ==
  /\ current_time <= t_mod
  /\ ev.kind \in {"in", "out"} => ev.time < t_mod

\* C5: logical time starts at 0 and never decreases: every value assigned to
\* current_time is >= the previous one and >= 0, and no pending output is
\* earlier than current_time.
C5_TimeMonotone ==
  [][/\ current_time' >= current_time
     /\ current_time' >= 0
     /\ \A t \in TNames : \A x \in output_times[t] : x >= current_time]_vars

\* C6: Model.run always terminates, whatever non-negative delays are
\* sampled.  A run that terminates for every choice of delays never comes
\* back to the loop head in the control state (marking of the input
\* positions, pending outputs, clock) it had at the previous loop head: from
\* such a state the same samples repeat the iteration forever.
C6_NoRecurringLoopHead ==
  pc = "loop" => ControlState \notin prevHead

\* C7: at each event time t every output due at t is applied before any
\* fire_input of that iteration: during the firing phase every transition
\* that had an output pending at t at the loop head has had it applied, and
\* an output still pending at t was scheduled by this firing phase.
C7_OutputsBeforeFirings ==
  pc = "firing" =>
    \A t \in TNames :
      /\ (\E h \in prevHead : current_time \in h.output_times[t])
           => t \in phaseOut
      /\ current_time \in output_times[t] => t \in phaseSched

\* two or more outputs were due at the same time and a transition has fired
\* after them
C7_Witness ==
  /\ pc = "firing"
  /\ Cardinality(phaseOut) >= 2
  /\ phaseSched # {}

\* C9: conservation per firing: a fire_input takes exactly the arc weight
\* from every non-guard input position and changes no other token count;
\* the outputs applied at an event time add exactly the arc weights of the
\* transitions applied to their output positions and change no other count.
C9_Conservation ==
  [][/\ \A t \in TNames :
          FiredInput(t) =>
            \A pn \in PNames :
              pos'[pn].tokens = pos[pn].tokens - ConsumedBy(t, pn)
     /\ pc = "outputs" =>
          \A pn \in PNames :
            pos'[pn].tokens = pos[pn].tokens
              + ProducedBySet({t \in TNames : FiredOutput(t)}, pn)]_vars

\* the outputs of T1 (into P1 and P2) and of another transition have just
\* been applied to a marking in which P1 was not empty
C9_Witness ==
  /\ ev.kind = "out"
  /\ "T1" \in ev.who
  /\ Cardinality(ev.who) >= 2
  /\ pos["P1"].tokens >= 2

\* C10: a guard-only input arc is required for enabling and never consumed:
\* when a transition fires, every input position (guard or not) held at
\* least the arc weight, every guard position keeps its token count and
\* every consuming position loses the arc weight (T2, T3 and T4 leave P8 and
\* P11 unchanged).
C10_GuardArcNotConsumed ==
  [][\A t \in TNames :
       FiredInput(t) =>
         \A pn \in DOMAIN Trans[t].input_arcs :
           LET arc == Trans[t].input_arcs[pn]
           IN  /\ arc[1] >= 1
               /\ pos[pn].tokens >= arc[1]
               /\ arc[2] => pos'[pn].tokens = pos[pn].tokens
               /\ ~arc[2] => pos'[pn].tokens = pos[pn].tokens - arc[1]]_vars

\* T3 has just fired on its guard arc P11 and its consuming arc P2
C10_Witness ==
  /\ ev.kind = "in"
  /\ ev.who = {"T3"}
  /\ pos["P11"].tokens >= 1

\* number of tokens in the whole marking
RECURSIVE MarkingSize(_, _)
MarkingSize(P, S) ==
  IF S = {} THEN 0
  ELSE LET pn == CHOOSE x \in S : TRUE
       IN  P[pn].tokens + MarkingSize(P, S \ {pn})

\* all input-arc conditions of t hold in the current marking
LocallyEnabled(t) ==
  \A pn \in DOMAIN Trans[t].input_arcs :
    /\ Trans[t].input_arcs[pn][1] > 0
    /\ pos[pn].tokens >= Trans[t].input_arcs[pn][1]

\* C11: the firing phase is a terminating fixpoint: every firing of the
\* phase strictly decreases the (non-negative) number of tokens in the
\* marking, so the phase ends after finitely many firings, and it ends only
\* in a marking in which no transition has its input conditions satisfied.
C11_FiringPhaseFixpoint ==
  [][/\ (pc = "firing" /\ pc' = "firing") =>
          /\ MarkingSize(pos', PNames) < MarkingSize(pos, PNames)
          /\ MarkingSize(pos', PNames) >= 0
     /\ (pc = "firing" /\ pc' = "loop") =>
          \A t \in TNames : ~LocallyEnabled(t)]_vars

\* a firing phase has ended after firing three or more different
\* transitions
C11_Witness ==
  /\ ev.kind = "idle"
  /\ Cardinality(phaseSched) >= 3

\* C12: a zero-delay firing at t schedules its output at exactly t, no
\* output is applied inside the firing phase, and an output scheduled by the
\* firing phase for the current time is applied by the output phase of the
\* next outer-loop iteration at the same logical time.
C12_ImmediateOutputSameInstant ==
  [][/\ \A t \in TNames :
          (FiredInput(t) /\ Trans[t].delay.kind = "none")
            => current_time \in output_times'[t]
     /\ pc = "firing" => nOut' = nOut
     /\ (pc = "loop"
         /\ \E t \in phaseSched : current_time \in output_times[t])
          => /\ pc' = "outputs"
             /\ current_time' = current_time]_vars

\* C13: among the transitions enabled at the same instant with equal
\* priority, the one fired is the first in ascending (string) name order.
C13_NameTieBreak ==
  [][\A b \in TNames :
       FiredInput(b) =>
         \A a \in TNames \ {b} :
           (LocallyEnabled(a) /\ Priority(a) = Priority(b))
             => SeqLess(NameChars[b], NameChars[a])]_vars

\* T10 has just fired in a marking where T3 was enabled as well (P2 and P11
\* held tokens): "T10" comes before "T3" as a string
C13_Witness ==
  /\ ev.kind = "in"
  /\ ev.who = {"T10"}
  /\ pos["P2"].tokens >= 1

\* C14: for every position in every reachable state, total_tokens >= tokens
\* and max_tokens >= tokens.
C14_CountersBoundTokens ==
  \A pn \in PNames :
    /\ pos[pn].total_tokens >= pos[pn].tokens
    /\ pos[pn].max_tokens >= pos[pn].tokens

\* an output has just raised a position to a new peak of 2 tokens
C14_Witness ==
  /\ ev.kind = "out"
  /\ \E pn \in PNames : pos[pn].tokens = 2 /\ pos[pn].max_tokens = 2

\* C15: total_tokens and max_tokens of every position never decrease across
\* a step of a run.
C15_MonotonicCounters ==
  [][\A pn \in PNames :
       /\ pos'[pn].total_tokens >= pos[pn].total_tokens
       /\ pos'[pn].max_tokens >= pos[pn].max_tokens]_vars

\* an output has just been added to a position below its historical peak
C15_Witness ==
  /\ ev.kind = "out"
  /\ \E pn \in PNames :
       /\ pos[pn].last_change_time = current_time
       /\ pos[pn].tokens >= 1
       /\ pos[pn].tokens < pos[pn].max_tokens
       /\ \E t \in ev.who : pn \in DOMAIN Trans[t].output_arcs

\* C16: at the end of a run with horizon T every position satisfies
\* 0 <= total_busy_time <= T.
C16_BusyTimeBound ==
  pc \in {"done", "error"} =>
    \A pn \in PNames :
      /\ pos[pn].total_busy_time >= 0
      /\ pos[pn].total_busy_time <= t_mod

\* C17: at the end of a run every position's busy-time statistics are
\* settled to the horizon: last_change_time = T.
C17_SettledToHorizon ==
  pc \in {"done", "error"} =>
    \A pn \in PNames : pos[pn].last_change_time = t_mod

\* C18: has_tokens(weight) is true iff weight > 0 and tokens >= weight; for
\* weight 0 it is false for every token count, an empty position included.
C18_HasTokens ==
  ev.kind = "has" =>
    /\ ev.result <=> (ev.count > 0 /\ pos["P"].tokens >= ev.count)
    /\ ev.count = 0 => ~ev.result

\* has_tokens(0) has just been asked of an empty position
C18_Witness ==
  /\ ev.kind = "has"
  /\ ev.count = 0
  /\ pos["P"].tokens = 0
  /\ pos["P"].total_tokens >= 1

\* C19: remove_tokens(count) with count > tokens is reported as an error and
\* never leaves the position with a negative token count.
C19_RemoveBeyondTokensIsError ==
  ev.kind = "remove" => (ev.error \/ pos["P"].tokens >= 0)

\* the run is scenario 1: one token in P, no pre-seeded output, horizon 17
Scenario1 == net = "cycle1" /\ seeded["T"] = 0 /\ t_mod = 17

\* C20 as stated: in scenario 1 the transition fires exactly at times 0, 5,
\* 10 and 15 and the run ends with P.total_tokens = 5.
C20_Scenario1AsStated ==
  (Scenario1 /\ pc \in {"done", "error"}) =>
    /\ fireLog = <<<<0, "T">>, <<5, "T">>, <<10, "T">>, <<15, "T">>>>
    /\ pos["P"].total_tokens = 5

\* C20 (amended): in scenario 1 nothing is pending when run starts, so the
\* loop exits at once: the transition never fires, current_time stays 0 and
\* the run ends with P.tokens = 1 and P.total_tokens = 1.
C20_Scenario1NeverFires ==
  Scenario1 =>
    /\ fireLog = <<>>
    /\ current_time = 0
    /\ pc \in {"done", "error"} =>
         pos["P"].tokens = 1 /\ pos["P"].total_tokens = 1

\* scenario 1 has run to its end
C20_Witness ==
  /\ Scenario1
  /\ pc \in {"done", "error"}
  /\ ev.kind = "update"

\* the run is scenario 2: one token in A, none in B, no pre-seeded output
Scenario2 == net = "move1" /\ seeded["T"] = 0

\* C21 as stated: in scenario 2, for any horizon T > 0, the transition fires
\* exactly once, at t = 0, and the run ends with A.tokens = 0 and
\* B.tokens = 1.
C21_Scenario2AsStated ==
  (Scenario2 /\ t_mod > 0 /\ pc \in {"done", "error"}) =>
    /\ fireLog = <<<<0, "T">>>>
    /\ pos["A"].tokens = 0
    /\ pos["B"].tokens = 1

\* C21 (amended): in scenario 2, for any horizon T > 0, nothing is pending
\* when run starts, so the loop exits at once: the transition never fires
\* and the run ends with A.tokens = 1 and B.tokens = 0.
C21_Scenario2NeverFires ==
  (Scenario2 /\ t_mod > 0) =>
    /\ fireLog = <<>>
    /\ pos["A"].tokens = 1
    /\ pos["B"].tokens = 0
    /\ current_time = 0

\* scenario 2 has run to its end
C21_Witness ==
  /\ Scenario2
  /\ t_mod > 0
  /\ pc \in {"done", "error"}
  /\ ev.kind = "update"

\* the run is scenario 3: X and Y are both locally enabled on the initial
\* marking
Scenario3 == net \in {"prioShared1", "prioShared2", "prioSplit"}

\* the first engine iteration (the output phase of the one seeded output and
\* the firing phase after it) has just ended
IterationOneDone ==
  /\ Scenario3
  /\ ev.kind = "idle"
  /\ nOut["X"] + nOut["Y"] = 1

\* C22 as stated: in scenario 3, after one engine iteration X has fired and
\* Y has not fired.
C22_Scenario3AsStated ==
  IterationOneDone => (nIn["X"] >= 1 /\ nIn["Y"] = 0)

\* C22 (amended): in scenario 3 an engine iteration happens only if an
\* output is pending; in it X is the first transition to fire, and at the
\* end of the first iteration X has fired, Y has not fired when it competes
\* with X for the tokens X took, and Y has fired (in the same firing phase,
\* after X) when it has an input of its own.
C22_XFirstThenY ==
  Scenario3 =>
    /\ seeded["X"] + seeded["Y"] = 0 => fireLog = <<>>
    /\ fireLog # <<>> => fireLog[1][2] = "X"
    /\ IterationOneDone =>
         /\ nIn["X"] >= 1
         /\ net \in {"prioShared1", "prioShared2"} => nIn["Y"] = 0
         /\ net = "prioSplit" =>
              /\ nIn["Y"] = 1
              /\ Len(fireLog) = 2
              /\ fireLog[2] = <<current_time, "Y">>

\* the first iteration has ended on the net where Y has its own input: X
\* and Y both fired in it
C22_Witness ==
  /\ IterationOneDone
  /\ net = "prioSplit"
  /\ phaseSched = {"X", "Y"}

\* C23: busy time is integrated with the pre-mutation token count: across
\* any add_tokens, remove_tokens or settle at time t a position's
\* total_busy_time grows by (t - last_change_time) if it held tokens > 0
\* just before the call and by 0 otherwise, so total_busy_time never
\* decreases and grows only over intervals during which tokens > 0.
C23_BusyTimeIntegration ==
  [][\A pn \in PNames :
       LET grown == pos'[pn].total_busy_time - pos[pn].total_busy_time
           dt == pos'[pn].last_change_time - pos[pn].last_change_time
       IN  /\ grown = IF pos[pn].tokens > 0 THEN dt ELSE 0
           /\ grown >= 0]_vars

\* the records on_start returned at the firings of t whose output is due now
DueRecords(t) == {o.ref : o \in {x \in owner : x.t = t /\ x.due = current_time}}

\* the step is a fire_output of t that calls on_complete
CompletesRecord(t) ==
  /\ pc = "outputs"
  /\ t \in phaseOut'
  /\ Trans[t].on_complete

\* C24 as stated: the value returned by on_start at a firing's fire_input
\* is the value passed to on_complete at the fire_output of that same
\* firing, for every transition and every interleaving of its firings and
\* outputs (also with several outputs pending at once), so every
\* TransmissionRecord is completed only by the output of the firing that
\* created it, with end_time >= start_time.
C24_RecordOfSameFiring ==
  [][\A t \in TNames :
       CompletesRecord(t) =>
         /\ record[t] \in DueRecords(t)
         /\ ~records[record[t]].completed
         /\ records'[record[t]].end_time >= records'[record[t]].start_time]_vars

\* C24 (amended): the value passed to on_complete at a fire_output is the
\* value on_start returned at the latest fire_input of that transition (the
\* one record field is overwritten by every firing); it is the value of the
\* same firing when at most one output of the transition is pending, as on
\* the net with one slot token, where every record is completed only by the
\* output of the firing that created it; end_time >= start_time in either
\* case.
C24_RecordOfLatestFiring ==
  [][\A t \in TNames :
       CompletesRecord(t) =>
         /\ record[t] = Len(records)
         /\ records'[record[t]].completed
         /\ records'[record[t]].end_time = current_time
         /\ records'[record[t]].end_time >= records'[record[t]].start_time
         /\ net = "hook1" =>
              /\ record[t] \in DueRecords(t)
              /\ ~records[record[t]].completed]_vars

\* an output of Y has just completed the record of its second firing on
\* the net with one slot token
C24_Witness ==
  /\ net = "hook1"
  /\ ev.kind = "out"
  /\ "Y" \in ev.who
  /\ Len(records) = 2
  /\ records[2].completed

\* C25: T6 (return from the main-channel queue P3 to P2, declared with a
\* weight-0 guard arc on P8) is never enabled and never fires in any
\* reachable state; messages in P3 leave it only through T4.
C25_T6NeverFires ==
  [][/\ ~CheckInputConditions("T6", pos)
     /\ ~IsEnabled("T6", pos)
     /\ nIn'["T6"] = 0
     /\ output_times'["T6"] = {}
     /\ pos'["P3"].tokens < pos["P3"].tokens =>
          /\ FiredInput("T4")
          /\ pos'["P3"].tokens = pos["P3"].tokens - 1]_vars

\* a firing phase has ended with a message waiting in P3 and the main
\* channel available in P8: T6 was passed over
C25_Witness ==
  /\ net = "comm"
  /\ ev.kind = "idle"
  /\ pos["P3"].tokens >= 1
  /\ pos["P8"].tokens >= 1
  /\ nIn["T6"] = 0

\* number of outputs of t that are pending
Pending(t) == Cardinality(output_times[t])

\* C26: message conservation in the communication network: at every point
\* of a run the number of messages that have arrived (outputs of T1 into
\* P2) equals P2.tokens + P3.tokens + P4.tokens + the pending outputs of T2,
\* T3, T4 and T5 + P5.tokens.
C26_MessageConservation ==
  net = "comm" =>
    nOut["T1"] = pos["P2"].tokens + pos["P3"].tokens + pos["P4"].tokens
                 + Pending("T2") + Pending("T3") + Pending("T4")
                 + Pending("T5") + pos["P5"].tokens

\* number of transmission records not yet completed
RECURSIVE Incomplete(_)
Incomplete(recs) ==
  IF recs = <<>> THEN 0
  ELSE (IF Head(recs).completed THEN 0 ELSE 1) + Incomplete(Tail(recs))

\* C27: channel-slot mutual exclusion in the communication network: in
\* every reachable state P6.tokens + (pending outputs of T4) + (pending
\* outputs of T5) = 1, so at most one transmission (main or reserve) is in
\* progress at any time and at most one TransmissionRecord is incomplete.
C27_ChannelSlotExclusion ==
  net = "comm" =>
    /\ pos["P6"].tokens + Pending("T4") + Pending("T5") = 1
    /\ Pending("T4") + Pending("T5") <= 1
    /\ Incomplete(records) = Pending("T4") + Pending("T5")

\* a transmission is in progress on the main channel while another message
\* waits in a channel queue
C27_Witness ==
  /\ net = "comm"
  /\ pos["P6"].tokens = 0
  /\ Pending("T4") = 1
  /\ Incomplete(records) = 1
  /\ pos["P3"].tokens + pos["P4"].tokens >= 1

\* C28: each source transition of the communication network has at most
\* one timer outstanding: at every point of a run T1 (message arrival) has
\* at most one pending output and T7 (failure generator) has at most one
\* pending output.
C28_SingleTimer ==
  net = "comm" => (Pending("T1") <= 1 /\ Pending("T7") <= 1)

C30_AvailabilityTokenConserved ==
  net \in {"comm", "recovery"} =>
    /\ pos["P8"].tokens + pos["P12"].tokens + Pending("T9") + Pending("T10")
         = 1
    /\ pos["P8"].tokens \in {0, 1}
    /\ pos["P12"].tokens + Pending("T9") <= 1

\* a recovery has completed: an output of T10 has just put the token back
\* on P8
C30_Witness ==
  /\ net = "comm"
  /\ ev.kind = "out"
  /\ "T10" \in ev.who
  /\ pos["P8"].tokens = 1
  /\ nOut["T9"] >= 1

\* C31: main and reserve routing are mutually exclusive at quiescence:
\* whenever a firing phase has ended (no transition enabled), it is not the
\* case that both P8.tokens >= 1 (main channel available) and P11.tokens
\* >= 1 (reserve channel connected).
C31_RoutingExclusiveAtQuiescence ==
  (net \in {"comm", "recovery"} /\ ev.kind = "idle") =>
    ~(pos["P8"].tokens >= 1 /\ pos["P11"].tokens >= 1)

\* a firing phase has ended with the reserve channel connected and the
\* main channel taken by a recovery
C31_Witness ==
  /\ net = "comm"
  /\ ev.kind = "idle"
  /\ pos["P11"].tokens >= 1
  /\ pos["P8"].tokens = 0

\* C32: delivered-message accounting: in every reachable state P5.tokens
\* equals the number of completed TransmissionRecords, i.e. (completed
\* records with channel 'main') + (completed records with channel
\* 'reserve') = P5.tokens.
C32_DeliveredEqualsCompleted ==
  net = "comm" =>
    /\ CompletedOn(records, "main") + CompletedOn(records, "reserve")
         = pos["P5"].tokens
    /\ Len(records) - Incomplete(records) = pos["P5"].tokens

\* an output of T4 has just delivered a message to P5 and completed its
\* record
C32_Witness ==
  /\ net = "comm"
  /\ ev.kind = "out"
  /\ "T4" \in ev.who
  /\ pos["P5"].tokens >= 1
  /\ CompletedOn(records, "main") >= 1

\* C33: Model.run ends normally with statistics computed for every run,
\* including a run in which no transmission has completed by the end
\* (P5.tokens = 0): the end-of-run statistics update never reaches an error
\* state.
C33_UpdateNeverFails ==
  net = "comm" =>
    /\ pc # "error"
    /\ (ev.kind = "update" /\ pos["P5"].tokens = 0) => pc = "done"

====
